---- MODULE Spec2Model ----
(***************************************************************************)
(* Model of college-planner-ai/planner.py: the prerequisite filter, the    *)
(* interest matcher, the multi-semester greedy allocator and the workload  *)
(* estimate with its enrichment fallback.                                  *)
(*                                                                         *)
(* Text is a sequence of one-character strings.  Course names are atoms    *)
(* (TLA+ strings) whose characters are given by NameText, because the      *)
(* code uses a name both as a dictionary key and as text to search in.     *)
(***************************************************************************)
EXTENDS Integers, Sequences, FiniteSets, TLC

VARIABLES
    call,                \* the entry point this behaviour runs
    pc,                  \* position in the entry point: "call", "loop", "done"
    catalog,             \* what load_courses() returns
    completed,           \* argument completed (the code only uses set(completed))
    all_courses,         \* argument all_courses, a list
    career_path,         \* argument career_path
    interests,           \* argument interests, text
    semesters,           \* argument semesters
    career_priorities,   \* local of generate_semester_schedule
    interest_electives,  \* local of generate_semester_schedule
    planned_courses,     \* local of generate_semester_schedule
    semester,            \* loop variable of generate_semester_schedule
    semester_schedules,  \* local / return value of generate_semester_schedule
    available_log,       \* history: the sorted list `available` of each semester
    result,              \* return value of the list-returning entry points
    GEMINI_AVAILABLE,    \* module global set by the import at lines 11-16
    semester_courses,    \* argument semester_courses of analyze_workload
    enrichment,          \* history: what the Gemini collaborator did in this call
    analysis,            \* return value of analyze_workload
    raised               \* TRUE when an exception left the entry point

args == <<call, catalog, completed, all_courses, career_path, interests,
          semesters, GEMINI_AVAILABLE, semester_courses>>

locals == <<career_priorities, interest_electives, planned_courses, semester,
            semester_schedules, available_log>>

vars == <<args, pc, locals, result, enrichment, analysis, raised>>

----------------------------------------------------------------------------
(* Bounds of the model *)

MaxOffered == 3
MaxInterestLen == 4
MaxWorkload == 5
MaxSemesters == 9

----------------------------------------------------------------------------
(* Text *)

None == <<"<None>">>

Txt1(a) == <<a>>
Txt2(a, b) == <<a, b>>
Txt3(a, b, c) == <<a, b, c>>

LowerChar(ch) ==
    CASE ch = "A" -> "a"
      [] ch = "B" -> "b"
      [] ch = "C" -> "c"
      [] ch = "G" -> "g"
      [] ch = "P" -> "p"
      [] ch = "Q" -> "q"
      [] ch = "R" -> "r"
      [] ch = "S" -> "s"
      [] ch = "Z" -> "z"
      [] OTHER -> ch

Lower(s) == [i \in 1..Len(s) |-> LowerChar(s[i])]

IsSpace(ch) == ch = " "

RECURSIVE LStrip(_)
LStrip(s) == IF s # <<>> /\ IsSpace(Head(s)) THEN LStrip(Tail(s)) ELSE s

RECURSIVE RStrip(_)
RStrip(s) ==
    IF s # <<>> /\ IsSpace(s[Len(s)]) THEN RStrip(SubSeq(s, 1, Len(s) - 1)) ELSE s

Strip(s) == RStrip(LStrip(s))

RECURSIVE Split(_, _)
Split(s, sep) ==
    IF \E i \in 1..Len(s) : s[i] = sep
    THEN LET i == CHOOSE k \in 1..Len(s) :
                      s[k] = sep /\ \A j \in 1..(k - 1) : s[j] # sep
         IN  <<SubSeq(s, 1, i - 1)>> \o Split(SubSeq(s, i + 1, Len(s)), sep)
    ELSE <<s>>

Contains(sub, s) ==
    \E i \in 0..(Len(s) - Len(sub)) : SubSeq(s, i + 1, i + Len(sub)) = sub

InList(x, list) == \E i \in 1..Len(list) : list[i] = x

\* Mutation: the position counted from 1.
IndexOfOneBased(x, list) ==
    CHOOSE i \in 1..Len(list) : list[i] = x /\ \A j \in 1..(i - 1) : list[j] # x

IndexOf(x, list) ==
    (CHOOSE i \in 1..Len(list) :
        list[i] = x /\ \A j \in 1..(i - 1) : list[j] # x) - 1

Get(info, key, default) == IF key \in DOMAIN info THEN info[key] ELSE default

----------------------------------------------------------------------------
(* Catalogs: the contents of courses.json the model runs against.  `order` *)
(* is the key order of the "courses" mapping.  A record carries only the   *)
(* fields its JSON object has; Get supplies the code's defaults.  `others` *)
(* are names a caller may pass that are no course of the catalog, and      *)
(* `finished` the names a learner may have completed.                      *)

NameText(name) ==
    CASE name = "Ab" -> Txt2("A", "b")
      [] name = "Bz" -> Txt2("B", "z")
      [] name = "Zz" -> Txt2("Z", "z")
      [] name = "Gx" -> Txt2("G", "x")
      [] name = "Pa" -> Txt2("P", "a")
      [] name = "Qa" -> Txt2("Q", "a")
      [] name = "Rb" -> Txt2("R", "b")
      [] name = "Sb" -> Txt2("S", "b")
      [] name = "Gh" -> Txt2("G", "h")
      [] name = "Cy" -> Txt2("C", "y")
      [] name = "Cz" -> Txt2("C", "z")

\* A prerequisite chain with career paths, tags and missing optional fields.
CatalogChain ==
    [order |-> <<"Ab", "Bz", "Zz">>,
     courses |->
        [n \in {"Ab", "Bz", "Zz"} |->
            CASE n = "Ab" -> [level |-> "freshman", credits |-> 3,
                              description |-> Txt3("a", " ", "b"),
                              prerequisites |-> <<>>,
                              tags |-> <<Txt1("A")>>]
              [] n = "Bz" -> [level |-> "sophomore", credits |-> 3,
                              prerequisites |-> <<"Ab">>]
              [] n = "Zz" -> [description |-> Txt1("z"),
                              prerequisites |-> <<"Ab", "Bz">>,
                              tags |-> <<Txt1("B")>>]],
     career_paths |-> [p \in {Txt2("b", "e")} |-> <<"Bz", "Ab", "Gx">>],
     others |-> {"Gx"},
     finished |-> {"Ab", "Gx"}]

\* Heavy courses: the 12-credit stop, the 18-credit cap, a course above the cap.
CatalogHeavy ==
    [order |-> <<"Pa", "Qa", "Rb", "Sb">>,
     courses |->
        [n \in {"Pa", "Qa", "Rb", "Sb"} |->
            CASE n = "Pa" -> [level |-> "freshman", credits |-> 10,
                              prerequisites |-> <<>>]
              [] n = "Qa" -> [level |-> "freshman", credits |-> 10,
                              description |-> Txt1("b")]
              [] n = "Rb" -> [level |-> "sophomore", credits |-> 4]
              [] n = "Sb" -> [level |-> "senior", credits |-> 20]],
     others |-> {},
     finished |-> {"Pa", "Sb"}]

\* A prerequisite that is no catalog course, and a prerequisite cycle.
CatalogCycle ==
    [order |-> <<"Gh", "Cy", "Cz">>,
     courses |->
        [n \in {"Gh", "Cy", "Cz"} |->
            CASE n = "Gh" -> [level |-> "junior", credits |-> 4,
                              description |-> Txt1("a"),
                              prerequisites |-> <<"Gx">>]
              [] n = "Cy" -> [prerequisites |-> <<"Cz">>]
              [] n = "Cz" -> [credits |-> 12, prerequisites |-> <<"Cy">>]],
     career_paths |-> [p \in {} |-> <<>>],
     others |-> {"Gx"},
     finished |-> {"Gx", "Cy"}]

Catalogs == {CatalogChain, CatalogHeavy, CatalogCycle}

\* Courses without prerequisites whose levels include one outside the four
\* named ones and one that is missing.
CatalogLevels ==
    [order |-> <<"Thesis", "Capstone", "Seminar", "Writing">>,
     courses |->
        [n \in {"Thesis", "Capstone", "Seminar", "Writing"} |->
            CASE n = "Thesis" -> [level |-> "graduate", credits |-> 6]
              [] n = "Capstone" -> [level |-> "senior", credits |-> 4]
              [] n = "Seminar" -> [credits |-> 1]
              [] n = "Writing" -> [level |-> "freshman", credits |-> 3]],
     others |-> {},
     finished |-> {"Writing"}]

\* The catalogs suggest_next_courses is run on.
NextCatalogs == Catalogs \cup {CatalogLevels}

\* Courses the workload estimate knows by name, and "Art", which is no course.
CatalogDegree ==
    [order |-> <<"Algorithms", "Operating Systems", "Data Structures", "Calculus">>,
     courses |->
        [n \in {"Algorithms", "Operating Systems", "Data Structures", "Calculus"} |->
            CASE n = "Algorithms" -> [level |-> "junior", credits |-> 4,
                                      prerequisites |-> <<"Data Structures">>]
              [] n = "Operating Systems" -> [level |-> "senior", credits |-> 6]
              [] n = "Data Structures" -> [level |-> "sophomore"]
              [] n = "Calculus" -> [level |-> "freshman", credits |-> 5]],
     others |-> {"Art"},
     finished |-> {}]

\* Light courses of the difficult list, so that five of them stay under 15
\* credits.
CatalogLight ==
    [order |-> <<"Machine Learning", "Artificial Intelligence", "Database Systems">>,
     courses |->
        [n \in {"Machine Learning", "Artificial Intelligence", "Database Systems"} |->
            CASE n = "Machine Learning" -> [level |-> "senior", credits |-> 2]
              [] n = "Artificial Intelligence" -> [level |-> "senior", credits |-> 4]
              [] n = "Database Systems" -> [level |-> "junior"]],
     others |-> {},
     finished |-> {}]

WorkloadCatalogs == {CatalogDegree, CatalogLight}

\* load_courses()['courses'] and load_courses().get('career_paths', {})
CoursesData(cat) == cat.courses
CareerPaths(cat) == Get(cat, "career_paths", [p \in {} |-> <<>>])

\* The names a caller may pass for this catalog: its courses and other names.
NameUniverse(cat) == DOMAIN CoursesData(cat) \cup cat.others

SeqsUpTo(S, n) == UNION {[1..k -> S] : k \in 0..n}

----------------------------------------------------------------------------
(* list.sort(key=..., reverse=...): a stable sort of [key, item] pairs *)

\* Mutation: an item is put in front of the items that compare equal to it.
RECURSIVE InsertBeforeEquals(_, _, _)
InsertBeforeEquals(sorted, x, reverse) ==
    IF sorted = <<>> THEN <<x>>
    ELSE IF (IF reverse THEN Head(sorted).key > x.key ELSE Head(sorted).key < x.key)
         THEN <<Head(sorted)>> \o InsertBeforeEquals(Tail(sorted), x, reverse)
         ELSE <<x>> \o sorted

RECURSIVE InsertStable(_, _, _)
InsertStable(sorted, x, reverse) ==
    IF sorted = <<>> THEN <<x>>
    ELSE IF (IF reverse THEN Head(sorted).key >= x.key ELSE Head(sorted).key <= x.key)
         THEN <<Head(sorted)>> \o InsertStable(Tail(sorted), x, reverse)
         ELSE <<x>> \o sorted

RECURSIVE StableSort(_, _)
StableSort(keyed, reverse) ==
    IF keyed = <<>> THEN <<>>
    ELSE InsertStable(StableSort(SubSeq(keyed, 1, Len(keyed) - 1), reverse),
                      keyed[Len(keyed)], reverse)

Items(keyed) == [i \in 1..Len(keyed) |-> keyed[i].item]

----------------------------------------------------------------------------
(* suggest_ai_electives *)

DefaultCredits == 3

\* Mutation: the tokens that are empty after strip() are kept.
RECURSIVE KeywordsOfKeepEmpty(_)
KeywordsOfKeepEmpty(pieces) ==
    IF pieces = <<>> THEN <<>>
    ELSE <<Lower(Strip(Head(pieces)))>> \o KeywordsOfKeepEmpty(Tail(pieces))

\* [interest.strip().lower() for interest in interests.split(',') if interest.strip()]
RECURSIVE KeywordsOf(_)
KeywordsOf(pieces) ==
    IF pieces = <<>> THEN <<>>
    ELSE (IF Strip(Head(pieces)) # <<>> THEN <<Lower(Strip(Head(pieces)))>> ELSE <<>>)
         \o KeywordsOf(Tail(pieces))

InterestKeywords(text) == KeywordsOf(Split(text, ","))

LowerTags(course_tags) == {Lower(course_tags[i]) : i \in 1..Len(course_tags)}

\* Mutation: three independent ifs, each appending its reason.
MatchReasonsIndependent(keyword, course_name, course_info) ==
    (IF keyword \in LowerTags(Get(course_info, "tags", <<>>))
     THEN <<[kind |-> "tag", keyword |-> keyword]>> ELSE <<>>)
    \o (IF Contains(keyword, Lower(NameText(course_name)))
        THEN <<[kind |-> "name", keyword |-> keyword]>> ELSE <<>>)
    \o (IF Contains(keyword, Lower(Get(course_info, "description", <<>>)))
        THEN <<[kind |-> "description", keyword |-> keyword]>> ELSE <<>>)

\* The if / elif / elif of one keyword: the reasons it appends (none or one).
MatchReasons(keyword, course_name, course_info) ==
    IF keyword \in LowerTags(Get(course_info, "tags", <<>>))
    THEN <<[kind |-> "tag", keyword |-> keyword]>>
    ELSE IF Contains(keyword, Lower(NameText(course_name)))
    THEN <<[kind |-> "name", keyword |-> keyword]>>
    ELSE IF Contains(keyword, Lower(Get(course_info, "description", <<>>)))
    THEN <<[kind |-> "description", keyword |-> keyword]>>
    ELSE <<>>

RECURSIVE Matches(_, _, _)
Matches(keywords, course_name, course_info) ==
    IF keywords = <<>> THEN <<>>
    ELSE MatchReasons(Head(keywords), course_name, course_info)
         \o Matches(Tail(keywords), course_name, course_info)

Suggestion(course_name, course_info, matches) ==
    [name |-> course_name,
     level |-> Get(course_info, "level", "unknown"),
     credits |-> Get(course_info, "credits", DefaultCredits),
     description |-> Get(course_info, "description", <<>>),
     matches |-> matches,
     match_count |-> Len(matches)]

RECURSIVE CollectSuggestions(_, _, _)
CollectSuggestions(names, courses_data, keywords) ==
    IF names = <<>> THEN <<>>
    ELSE LET course_name == Head(names)
             course_info == courses_data[course_name]
             matches == Matches(keywords, course_name, course_info)
         IN  (IF matches # <<>>
              THEN <<[key |-> Len(matches),
                      item |-> Suggestion(course_name, course_info, matches)]>>
              ELSE <<>>)
             \o CollectSuggestions(Tail(names), courses_data, keywords)

SuggestAiElectives(cat, text) ==
    Items(StableSort(CollectSuggestions(cat.order, CoursesData(cat),
                                        InterestKeywords(text)), TRUE))

----------------------------------------------------------------------------
(* generate_semester_schedule *)

CareerBase == 1000
InterestWeight == 50
LevelBonus == 200
\* Mutation: a cap above 18.
MaxCreditsRaised == 18 + 4

\* Mutation: a cap below 18.
MaxCreditsLowered == 18 - 4

MaxCredits == 18
\* Mutation: the loop goes on until 15 credits.
MinFullTimeRaised == 12 + 3

MinFullTime == 12

Truthy(text) == text # None /\ text # <<>>

\* Mutation: any() where the code has all().
AnyPrereqMet(prerequisites, satisfied) ==
    \E i \in 1..Len(prerequisites) : prerequisites[i] \in satisfied

\* Mutation: only the first prerequisite is looked at.
FirstPrereqMet(prerequisites, satisfied) ==
    prerequisites = <<>> \/ prerequisites[1] \in satisfied

\* all(prereq in satisfied for prereq in prerequisites)
AllPrereqsMet(prerequisites, satisfied) ==
    \A i \in 1..Len(prerequisites) : prerequisites[i] \in satisfied

\* Mutation: a path that is not in the catalog falls back to a listed one.
CareerPrioritiesFallBack(cat, path) ==
    IF Truthy(path) /\ DOMAIN CareerPaths(cat) # {}
    THEN IF Lower(path) \in DOMAIN CareerPaths(cat)
         THEN CareerPaths(cat)[Lower(path)]
         ELSE CareerPaths(cat)[CHOOSE k \in DOMAIN CareerPaths(cat) : TRUE]
    ELSE <<>>

\* career_priorities of lines 143-145
CareerPriorities(cat, path) ==
    IF Truthy(path) /\ Lower(path) \in DOMAIN CareerPaths(cat)
    THEN CareerPaths(cat)[Lower(path)]
    ELSE <<>>

\* interest_electives = {e['name']: e for e in elective_suggestions}
InterestElectives(suggestions) ==
    [n \in {suggestions[i].name : i \in 1..Len(suggestions)} |->
        LET i == CHOOSE k \in 1..Len(suggestions) :
                     suggestions[k].name = n
                     /\ \A j \in (k + 1)..Len(suggestions) : suggestions[j].name # n
        IN  suggestions[i]]

Year(sem) == ((sem - 1) \div 2) + 1
Term(sem) == IF (sem - 1) % 2 = 0 THEN "Fall" ELSE "Spring"

TargetLevel(year) ==
    IF year = 1 THEN "freshman"
    ELSE IF year = 2 THEN "sophomore"
    ELSE IF year = 3 THEN "junior"
    ELSE "senior"

Priority(course_name, course_info, year, priorities, electives) ==
    (IF InList(course_name, priorities)
     THEN CareerBase - IndexOf(course_name, priorities) ELSE 0)
    + (IF course_name \in DOMAIN electives
       THEN electives[course_name].match_count * InterestWeight ELSE 0)
    + (IF Get(course_info, "level", "unknown") = TargetLevel(year)
       THEN LevelBonus ELSE 0)

Candidate(course_name, course_info, year, path, priorities, electives) ==
    [name |-> course_name,
     level |-> Get(course_info, "level", "unknown"),
     credits |-> Get(course_info, "credits", DefaultCredits),
     description |-> Get(course_info, "description", <<>>),
     priority |-> Priority(course_name, course_info, year, priorities, electives),
     tags |-> Get(course_info, "tags", <<>>),
     career_relevant |-> IF Truthy(path) THEN InList(course_name, priorities)
                         ELSE FALSE]

\* Mutation: the planned courses are not looked at.
AlreadyTakenCompletedOnly(course_name, done, planned) == course_name \in done

\* if course_name in completed_set or course_name in planned_courses: continue
AlreadyTaken(course_name, done, planned) ==
    course_name \in done \/ course_name \in planned

\* Mutation: range(1, semesters).
InRangeExclusive(sem, count) == sem < count

\* for semester in range(1, semesters + 1)
InRange(sem, count) == sem <= count

\* The loop of lines 165-203: the list `available` before it is sorted.
RECURSIVE Available(_, _, _, _, _, _, _, _)
Available(names, courses_data, done, planned, year, path, priorities, electives) ==
    IF names = <<>> THEN <<>>
    ELSE LET course_name == Head(names)
             rest == Available(Tail(names), courses_data, done, planned, year,
                               path, priorities, electives)
         IN  IF AlreadyTaken(course_name, done, planned) THEN rest
             ELSE IF course_name \notin DOMAIN courses_data THEN rest
             ELSE IF AllPrereqsMet(Get(courses_data[course_name],
                                       "prerequisites", <<>>), planned)
             THEN <<Candidate(course_name, courses_data[course_name], year,
                              path, priorities, electives)>> \o rest
             ELSE rest

\* available.sort(key=lambda x: x['priority'], reverse=True)
SortByPriority(available) ==
    Items(StableSort([i \in 1..Len(available) |->
                        [key |-> available[i].priority, item |-> available[i]]],
                     TRUE))

Entry(course) ==
    [name |-> course.name,
     credits |-> course.credits,
     description |-> course.description,
     career_relevant |-> course.career_relevant,
     tags |-> course.tags]

\* Mutation: the loop also stops at the first candidate that does not fit.
RECURSIVE SelectCoursesStopAtMisfit(_, _, _)
SelectCoursesStopAtMisfit(available, accepted, total_credits) ==
    IF available = <<>>
    THEN [courses |-> accepted, total_credits |-> total_credits]
    ELSE LET course == Head(available)
             fits == total_credits + course.credits <= 18
         IN  IF ~fits \/ total_credits + course.credits >= 12
             THEN [courses |-> IF fits THEN Append(accepted, Entry(course))
                               ELSE accepted,
                   total_credits |-> IF fits THEN total_credits + course.credits
                                     ELSE total_credits]
             ELSE SelectCoursesStopAtMisfit(Tail(available),
                                            Append(accepted, Entry(course)),
                                            total_credits + course.credits)

\* The loop of lines 213-226 from the candidate at the head of `available`.
RECURSIVE SelectCourses(_, _, _)
SelectCourses(available, accepted, total_credits) ==
    IF available = <<>>
    THEN [courses |-> accepted, total_credits |-> total_credits]
    ELSE LET course == Head(available)
             fits == total_credits + course.credits <= MaxCredits
             courses2 == IF fits THEN Append(accepted, Entry(course))
                         ELSE accepted
             total2 == IF fits THEN total_credits + course.credits
                       ELSE total_credits
         IN  IF total2 >= MinFullTime
             THEN [courses |-> courses2, total_credits |-> total2]
             ELSE SelectCourses(Tail(available), courses2, total2)

CourseNames(entries) == {entries[i].name : i \in 1..Len(entries)}

\* Mutation: every candidate of the semester counts as planned.
PlannedAfterAllCandidates(planned, accepted, available) ==
    planned \cup CourseNames(available)

\* Mutation: the planned set is replaced by the semester's courses.
PlannedAfterReplaced(planned, accepted, available) == CourseNames(accepted)

\* planned_courses after the loop of lines 213-226: line 222 adds each
\* accepted course.
PlannedAfter(planned, accepted, available) == planned \cup CourseNames(accepted)

\* Mutation: only the candidates that were not accepted are counted.
AvailableCountRejectedOnly(available, accepted) == Len(available) - Len(accepted)

\* Line 234: 'available_courses_count': len(available)
AvailableCoursesCount(available, accepted) == Len(available)

\* Mutation: planned_courses starts empty.
InitialPlannedEmpty(done) == {}

\* Line 153: planned_courses = set(completed)
InitialPlanned(done) == done

----------------------------------------------------------------------------
(* suggest_next_courses *)

\* Mutation: a level outside the four named ones sorts first.
LevelOrderUnknownFirst(level) ==
    CASE level = "freshman" -> 1
      [] level = "sophomore" -> 2
      [] level = "junior" -> 3
      [] level = "senior" -> 4
      [] OTHER -> 0

\* level_order of line 58 with the default of line 59
LevelOrder(level) ==
    CASE level = "freshman" -> 1
      [] level = "sophomore" -> 2
      [] level = "junior" -> 3
      [] level = "senior" -> 4
      [] OTHER -> 5

\* The loop of lines 42-55, each course paired with its sort key of line 59.
RECURSIVE NextAvailable(_, _, _)
NextAvailable(names, courses_data, completed_set) ==
    IF names = <<>> THEN <<>>
    ELSE LET course_name == Head(names)
             rest == NextAvailable(Tail(names), courses_data, completed_set)
         IN  IF course_name \in DOMAIN courses_data /\ course_name \notin completed_set
             THEN LET course_info == courses_data[course_name]
                      prerequisites == Get(course_info, "prerequisites", <<>>)
                  IN  IF AllPrereqsMet(prerequisites, completed_set)
                      THEN <<[key |-> LevelOrder(Get(course_info, "level", "unknown")),
                              item |-> [name |-> course_name,
                                        level |-> Get(course_info, "level", "unknown"),
                                        credits |-> Get(course_info, "credits",
                                                        DefaultCredits),
                                        description |-> Get(course_info, "description",
                                                            <<>>),
                                        prerequisites |-> prerequisites]]>> \o rest
                      ELSE rest
             ELSE rest

SuggestNext(cat, done, names) ==
    Items(StableSort(NextAvailable(names, CoursesData(cat), done), FALSE))

----------------------------------------------------------------------------
(* The arguments a behaviour is started with *)

CareerPathArgs == {None, Txt2("B", "e"), Txt1("z")}
InterestArgs == {<<>>, <<"a", ",", " ", "B">>}
SemesterArgs == {0, 2, MaxSemesters}
DefaultSemesters == 8

CompletedArgs(cat) == SUBSET cat.finished

Idle ==
    /\ pc = "call"
    /\ career_priorities = <<>>
    /\ interest_electives = <<>>
    /\ planned_courses = {}
    /\ semester = 0
    /\ semester_schedules = <<>>
    /\ available_log = <<>>
    /\ result = <<>>
    /\ enrichment = "none"
    /\ analysis = <<>>
    /\ raised = FALSE

NoWorkloadArgs ==
    /\ GEMINI_AVAILABLE = FALSE
    /\ semester_courses = <<>>

\* A request for a schedule, or for the next courses, of one catalog.
Init ==
    /\ call \in {"generate_semester_schedule", "suggest_next_courses"}
    /\ catalog \in (IF call = "suggest_next_courses" THEN NextCatalogs ELSE Catalogs)
    /\ completed \in CompletedArgs(catalog)
    /\ all_courses \in SeqsUpTo(NameUniverse(catalog), MaxOffered)
    /\ career_path \in
         (IF call = "generate_semester_schedule" /\ DOMAIN CareerPaths(catalog) # {}
          THEN CareerPathArgs ELSE {None})
    /\ interests \in
         (IF call = "generate_semester_schedule" /\ DOMAIN CareerPaths(catalog) # {}
          THEN InterestArgs ELSE {<<>>})
    /\ semesters \in
         (IF call = "generate_semester_schedule" THEN SemesterArgs
          ELSE {DefaultSemesters})
    /\ NoWorkloadArgs
    /\ Idle

\* Lines 139-154: the locals set up before the loop.
GenerateSemesterSchedule ==
    /\ call = "generate_semester_schedule"
    /\ pc = "call"
    /\ career_priorities' = CareerPriorities(catalog, career_path)
    /\ interest_electives' = InterestElectives(SuggestAiElectives(catalog, interests))
    /\ planned_courses' = InitialPlanned(completed)
    /\ semester_schedules' = <<>>
    /\ semester' = 1
    /\ pc' = "loop"
    /\ UNCHANGED <<args, available_log, result, enrichment, analysis, raised>>

\* Lines 157-235: one iteration of the loop over the semesters.
ScheduleSemester ==
    /\ call = "generate_semester_schedule"
    /\ pc = "loop"
    /\ InRange(semester, semesters)
    /\ LET year == Year(semester)
           available == SortByPriority(
               Available(all_courses, CoursesData(catalog), completed,
                         planned_courses, year, career_path, career_priorities,
                         interest_electives))
           chosen == SelectCourses(available, <<>>, 0)
       IN  /\ planned_courses' = PlannedAfter(planned_courses, chosen.courses, available)
           /\ semester_schedules' = Append(semester_schedules,
                  [semester |-> semester,
                   year |-> year,
                   term |-> Term(semester),
                   courses |-> chosen.courses,
                   total_credits |-> chosen.total_credits,
                   available_courses_count |->
                       AvailableCoursesCount(available, chosen.courses)])
           /\ available_log' = Append(available_log, available)
    /\ semester' = semester + 1
    /\ UNCHANGED <<args, pc, career_priorities, interest_electives, result,
                   enrichment, analysis, raised>>

\* Line 237: return semester_schedules
ReturnSchedule ==
    /\ call = "generate_semester_schedule"
    /\ pc = "loop"
    /\ ~InRange(semester, semesters)
    /\ result' = semester_schedules
    /\ pc' = "done"
    /\ UNCHANGED <<args, locals, enrichment, analysis, raised>>

\* Lines 36-61: suggest_next_courses(completed, all_courses)
SuggestNextCourses ==
    /\ call = "suggest_next_courses"
    /\ pc = "call"
    /\ result' = SuggestNext(catalog, completed, all_courses)
    /\ pc' = "done"
    /\ UNCHANGED <<args, locals, enrichment, analysis, raised>>

----------------------------------------------------------------------------
(* analyze_workload and analyze_workload_basic *)

difficult_courses ==
    {"Algorithms", "Operating Systems", "Machine Learning", "Artificial Intelligence"}
moderate_courses == {"Data Structures", "Database Systems", "Computer Networks"}

\* Lines 311-320: credit_count and difficulty_count after the loop.
RECURSIVE Tally(_, _)
Tally(names, courses_data) ==
    IF names = <<>> THEN [credit_count |-> 0, difficulty_count |-> 0]
    ELSE LET course_name == names[Len(names)]
             before == Tally(SubSeq(names, 1, Len(names) - 1), courses_data)
         IN  IF course_name \in DOMAIN courses_data
             THEN [credit_count |->
                       before.credit_count
                       + Get(courses_data[course_name], "credits", DefaultCredits),
                   difficulty_count |->
                       before.difficulty_count
                       + (IF course_name \in difficult_courses THEN 2
                          ELSE IF course_name \in moderate_courses THEN 1
                          ELSE 0)]
             ELSE before

\* Mutation: no cap, the second value is returned.
MinOfSecond(a, b) == b

MinOf(a, b) == IF a <= b THEN a ELSE b

\* Lines 301-341.  `difficulty` is a float that is a multiple of 0.5; the
\* model holds twice its value, and int() of it is the division by 2.
AnalyzeWorkloadBasic(cat, names) ==
    LET tally == Tally(names, CoursesData(cat))
        credit_count == tally.credit_count
        twice_difficulty ==
            IF credit_count >= 15 THEN 2 * 8
            ELSE IF credit_count >= 12 THEN 2 * 6 + tally.difficulty_count
            ELSE 2 * 5
        weekly_hours ==
            IF credit_count >= 15 THEN "25-30 hours"
            ELSE IF credit_count >= 12 THEN "20-25 hours"
            ELSE "15-20 hours"
    IN  [difficulty_rating |-> MinOf(10, twice_difficulty \div 2),
         weekly_hours |-> weekly_hours,
         challenges |-> "Multiple challenging courses may overlap. Prioritize time management.",
         tips |-> "Start assignments early and maintain consistent study schedule.",
         balance_analysis |-> <<"Managing", credit_count, "credit hours">>,
         total_credits |-> credit_count,
         method |-> "Basic"]

\* What the calls into genai and json of lines 260-292 can do.
EnrichmentOutcomes ==
    {"configure_raises", "generate_content_raises", "text_raises",
     "invalid_json", "json_not_object", "json_object"}

\* The exception an outcome raises inside the try block ("none": no exception).
ExceptionOf(outcome) ==
    CASE outcome = "configure_raises" -> "Exception"
      [] outcome = "generate_content_raises" -> "Exception"
      [] outcome = "text_raises" -> "ValueError"
      [] outcome = "invalid_json" -> "JSONDecodeError"
      [] outcome = "json_not_object" -> "TypeError"
      [] OTHER -> "none"

\* Mutation: except ValueError (JSONDecodeError is one).
CaughtValueErrorOnly(exception) == exception \in {"ValueError", "JSONDecodeError"}

\* except Exception as e
Caught(exception) ==
    exception \in {"Exception", "ValueError", "JSONDecodeError", "TypeError"}

\* The JSON objects the collaborator's answer may parse to.
AiReplies ==
    {[difficulty_rating |-> 7, weekly_hours |-> "18 hours"],
     [difficulty_rating |-> 3, total_credits |-> 99, method |-> "Basic"]}

\* Lines 245-298: [raised, value] of analyze_workload.
AnalyzeWorkloadResult(cat, names, available, outcome, reply) ==
    IF ~available THEN [raised |-> FALSE, value |-> AnalyzeWorkloadBasic(cat, names)]
    ELSE IF ExceptionOf(outcome) = "none"
    THEN [raised |-> FALSE,
          value |-> [total_credits |-> Tally(names, CoursesData(cat)).credit_count,
                     method |-> "AI (Gemini)"] @@ reply]
    ELSE IF Caught(ExceptionOf(outcome))
    THEN [raised |-> FALSE, value |-> AnalyzeWorkloadBasic(cat, names)]
    ELSE [raised |-> TRUE, value |-> <<>>]

\* A call of analyze_workload(semester_courses).
InitWorkload ==
    /\ call = "analyze_workload"
    /\ catalog \in WorkloadCatalogs
    /\ GEMINI_AVAILABLE \in BOOLEAN
    /\ semester_courses \in SeqsUpTo(NameUniverse(catalog), MaxWorkload)
    /\ completed = {}
    /\ all_courses = <<>>
    /\ career_path = None
    /\ interests = <<>>
    /\ semesters = DefaultSemesters
    /\ Idle

\* Lines 245-298: analyze_workload(semester_courses)
AnalyzeWorkload ==
    /\ call = "analyze_workload"
    /\ pc = "call"
    /\ \E outcome \in (IF GEMINI_AVAILABLE THEN EnrichmentOutcomes ELSE {"none"}) :
       \E reply \in AiReplies :
          LET r == AnalyzeWorkloadResult(catalog, semester_courses, GEMINI_AVAILABLE,
                                         outcome, reply)
          IN  /\ enrichment' = outcome
              /\ analysis' = r.value
              /\ raised' = r.raised
    /\ pc' = "done"
    /\ UNCHANGED <<args, locals, result>>

NextWorkload == AnalyzeWorkload

SpecWorkload == InitWorkload /\ [][NextWorkload]_vars

\* The interest texts suggest_ai_electives is run on by itself.
InterestChars == {"a", "B", "z", " ", ","}

\* A call of suggest_ai_electives(interests) on one catalog.
InitElectives ==
    /\ call = "suggest_ai_electives"
    /\ catalog \in Catalogs
    /\ interests \in SeqsUpTo(InterestChars, MaxInterestLen)
    /\ completed = {}
    /\ all_courses = <<>>
    /\ career_path = None
    /\ semesters = DefaultSemesters
    /\ NoWorkloadArgs
    /\ Idle

\* Lines 74-110: suggest_ai_electives(interests)
SuggestElectives ==
    /\ call = "suggest_ai_electives"
    /\ pc = "call"
    /\ result' = SuggestAiElectives(catalog, interests)
    /\ pc' = "done"
    /\ UNCHANGED <<args, locals, enrichment, analysis, raised>>

NextElectives == SuggestElectives

SpecElectives == InitElectives /\ [][NextElectives]_vars

Next ==
    \/ GenerateSemesterSchedule
    \/ ScheduleSemester
    \/ ReturnSchedule
    \/ SuggestNextCourses

Spec == Init /\ [][Next]_vars

\* The calls of generate_semester_schedule alone.
InitSchedule == Init /\ call = "generate_semester_schedule"

NextSchedule ==
    \/ GenerateSemesterSchedule
    \/ ScheduleSemester
    \/ ReturnSchedule

SpecSchedule == InitSchedule /\ [][NextSchedule]_vars

----------------------------------------------------------------------------
(* Properties of generate_semester_schedule, read off the plans emitted so  *)
(* far (semester_schedules) and the candidate lists they were chosen from.  *)

Plans == 1..Len(semester_schedules)

NamesOf(t) == CourseNames(semester_schedules[t].courses)

\* What the learner has finished or been assigned before semester t.
TakenBefore(t) == completed \cup UNION {NamesOf(u) : u \in 1..(t - 1)}

PrereqSet(cat, name) ==
    LET prerequisites == Get(CoursesData(cat)[name], "prerequisites", <<>>)
    IN  {prerequisites[i] : i \in 1..Len(prerequisites)}

RECURSIVE SumCredits(_)
SumCredits(entries) ==
    IF entries = <<>> THEN 0 ELSE Head(entries).credits + SumCredits(Tail(entries))

\* C1: no course name is assigned to two different semesters, and no
\* assigned course is in completed.
C1_NoRepeatAcrossTerms ==
    /\ \A t \in Plans : \A u \in Plans : t # u => NamesOf(t) \cap NamesOf(u) = {}
    /\ \A t \in Plans : NamesOf(t) \cap completed = {}

\* A finished run in which two semesters hold courses and a completed
\* course is in the offered list.
C1_Witness ==
    /\ pc = "done"
    /\ \E t \in Plans : \E u \in Plans : t # u /\ NamesOf(t) # {} /\ NamesOf(u) # {}
    /\ \E i \in 1..Len(all_courses) : all_courses[i] \in completed

\* C2: every prerequisite of a course assigned to semester t is in completed
\* or assigned to a semester before t, never to semester t itself; with Ab
\* free of prerequisites, Bz requiring Ab, nothing completed and 2 semesters,
\* semester 1 holds Ab only and semester 2 holds Bz.
C2_PrereqsStrictlyEarlier ==
    /\ \A t \in Plans : \A n \in NamesOf(t) :
          /\ PrereqSet(catalog, n) \subseteq TakenBefore(t)
          /\ PrereqSet(catalog, n) \cap NamesOf(t) = {}
    /\ (/\ pc = "done"
        /\ catalog = CatalogChain
        /\ completed = {}
        /\ all_courses = <<"Ab", "Bz">>
        /\ semesters = 2)
       => /\ [i \in 1..Len(result[1].courses) |-> result[1].courses[i].name] = <<"Ab">>
          /\ [i \in 1..Len(result[2].courses) |-> result[2].courses[i].name] = <<"Bz">>

\* A course with a prerequisite is assigned one semester after that
\* prerequisite was assigned, both offered in the same list.
C2_Witness ==
    \E t \in Plans : \E n \in NamesOf(t) :
        /\ t > 1
        /\ PrereqSet(catalog, n) \cap NamesOf(t - 1) # {}

\* C3: every plan's total_credits is at most 18 (and is the sum of the
\* credits of the plan's courses).
C3_CreditCap ==
    \A t \in Plans :
        /\ semester_schedules[t].total_credits <= 18
        /\ semester_schedules[t].total_credits
              = SumCredits(semester_schedules[t].courses)

\* A semester that left out a candidate because it would have passed 18.
C3_Witness ==
    \E t \in Plans : \E i \in 1..Len(available_log[t]) :
        /\ available_log[t][i].credits <= 18
        /\ available_log[t][i].name \notin NamesOf(t)
        /\ semester_schedules[t].total_credits + available_log[t][i].credits > 18
        /\ semester_schedules[t].total_credits > 12

\* C4: a plan has total_credits 0 only if it had no eligible candidate or
\* every eligible candidate has more than 18 credits (credits are positive).
C4_ZeroOnlyWhenNothingFits ==
    \A t \in Plans :
        semester_schedules[t].total_credits = 0
        => \/ semester_schedules[t].available_courses_count = 0
           \/ \A i \in 1..Len(available_log[t]) : available_log[t][i].credits > 18

\* A semester whose first candidate is above the cap and which still
\* assigns a later, smaller candidate.
C4_Witness ==
    \E t \in Plans :
        /\ Len(available_log[t]) > 1
        /\ available_log[t][1].credits > 18
        /\ semester_schedules[t].total_credits > 0

\* C5: the loop counts the semesters up from 1 and emits one plan per count,
\* so the run ends after exactly `semesters` plans numbered 1..semesters in
\* order and returns them without raising; a semester without eligible
\* candidate yields no course, total_credits 0 and available_courses_count 0.
C5_ExactlyNTerms ==
    /\ call = "generate_semester_schedule" =>
          /\ pc \in {"call", "loop", "done"}
          /\ pc = "loop" =>
                /\ semester \in 1..(semesters + 1)
                /\ Len(semester_schedules) = semester - 1
          /\ pc = "done" =>
                /\ Len(result) = semesters
                /\ \A t \in 1..semesters : result[t].semester = t
          /\ raised = FALSE
    /\ \A t \in Plans :
          /\ semester_schedules[t].semester = t
          /\ available_log[t] = <<>> =>
                /\ semester_schedules[t].courses = <<>>
                /\ semester_schedules[t].total_credits = 0
                /\ semester_schedules[t].available_courses_count = 0

\* A finished run of several semesters whose last semester had no candidate.
C5_Witness ==
    /\ pc = "done"
    /\ call = "generate_semester_schedule"
    /\ semesters > 2
    /\ Len(result) = semesters
    /\ NamesOf(1) # {}
    /\ result[semesters].available_courses_count = 0

Offered == {all_courses[i] : i \in 1..Len(all_courses)}

CandidateNames(t) == {available_log[t][i].name : i \in 1..Len(available_log[t])}

\* C6: a course passes the eligibility test against a set exactly when the
\* set holds every prerequisite on its record, so a course without
\* prerequisites passes against any set and a larger set never fails a
\* course a smaller one passed; the candidates of a semester and the courses
\* suggest_next_courses returns are the courses picked by this test.
C6_EligibleIffPrereqsSatisfied ==
    /\ pc = "call" =>
       \A n \in DOMAIN CoursesData(catalog) :
       \A S \in SUBSET NameUniverse(catalog) :
          LET prerequisites == Get(CoursesData(catalog)[n], "prerequisites", <<>>)
          IN  /\ AllPrereqsMet(prerequisites, S) <=> PrereqSet(catalog, n) \subseteq S
              /\ prerequisites = <<>> => AllPrereqsMet(prerequisites, S)
              /\ \A x \in NameUniverse(catalog) :
                    AllPrereqsMet(prerequisites, S)
                    => AllPrereqsMet(prerequisites, S \cup {x})
    /\ \A t \in Plans :
          CandidateNames(t)
            = {n \in (Offered \cap DOMAIN CoursesData(catalog)) \ TakenBefore(t) :
                 PrereqSet(catalog, n) \subseteq TakenBefore(t)}
    /\ (call = "suggest_next_courses" /\ pc = "done") =>
          {result[i].name : i \in 1..Len(result)}
            = {n \in (Offered \cap DOMAIN CoursesData(catalog)) \ completed :
                 PrereqSet(catalog, n) \subseteq completed}

\* A semester with a candidate whose prerequisites were assigned earlier in
\* the run, while another offered course still misses a prerequisite.
C6_Witness ==
    \E t \in Plans :
        /\ \E n \in CandidateNames(t) :
              /\ PrereqSet(catalog, n) # {}
              /\ ~(PrereqSet(catalog, n) \subseteq completed)
        /\ \E n \in (Offered \cap DOMAIN CoursesData(catalog)) \ TakenBefore(t) :
              n \notin CandidateNames(t)

----------------------------------------------------------------------------
(* Properties of suggest_ai_electives, read off its return value *)

Keywords == InterestKeywords(interests)

TagHit(keyword, name) ==
    LET course_tags == Get(CoursesData(catalog)[name], "tags", <<>>)
    IN  \E i \in 1..Len(course_tags) : Lower(course_tags[i]) = keyword

NameHit(keyword, name) == Contains(keyword, Lower(NameText(name)))

DescriptionHit(keyword, name) ==
    Contains(keyword, Lower(Get(CoursesData(catalog)[name], "description", <<>>)))

AnyHit(keyword, name) ==
    TagHit(keyword, name) \/ NameHit(keyword, name) \/ DescriptionHit(keyword, name)

FirstHitKind(keyword, name) ==
    IF TagHit(keyword, name) THEN "tag"
    ELSE IF NameHit(keyword, name) THEN "name"
    ELSE "description"

Occurrences(x, list) == Cardinality({i \in 1..Len(list) : list[i] = x})

\* C7: for a course and a keyword at most one reason is recorded, the tag
\* reason if the keyword equals a tag, else the name reason if it is in the
\* name, else the description reason if it is in the description; so
\* match_count is at most the number of keywords.
C7_OneReasonPerKeyword ==
    (call = "suggest_ai_electives" /\ pc = "done") =>
    \A e \in 1..Len(result) :
        LET name == result[e].name
            reasons == result[e].matches
        IN  /\ result[e].match_count = Len(reasons)
            /\ result[e].match_count <= Len(Keywords)
            /\ \A j \in 1..Len(reasons) :
                  /\ AnyHit(reasons[j].keyword, name)
                  /\ reasons[j].kind = FirstHitKind(reasons[j].keyword, name)
            /\ \A k \in 1..Len(Keywords) :
                  Cardinality({j \in 1..Len(reasons) : reasons[j].keyword = Keywords[k]})
                    = IF AnyHit(Keywords[k], name)
                      THEN Occurrences(Keywords[k], Keywords) ELSE 0

\* A keyword that equals a tag of a course and is in its name and in its
\* description, and the course is returned with one reason, the tag one.
C7_Witness ==
    /\ call = "suggest_ai_electives"
    /\ pc = "done"
    /\ \E e \in 1..Len(result) :
          /\ Len(Keywords) = 1
          /\ TagHit(Keywords[1], result[e].name)
          /\ NameHit(Keywords[1], result[e].name)
          /\ DescriptionHit(Keywords[1], result[e].name)
          /\ result[e].matches = <<[kind |-> "tag", keyword |-> Keywords[1]]>>

\* C8: the courses returned are the catalog courses for which a keyword
\* produced a reason, each once and with match_count at least 1; a text that
\* is empty or holds only commas and blanks returns the empty list.
C8_ReturnedIffMatched ==
    (call = "suggest_ai_electives" /\ pc = "done") =>
        /\ {result[e].name : e \in 1..Len(result)}
             = {n \in DOMAIN CoursesData(catalog) :
                  \E k \in 1..Len(Keywords) : AnyHit(Keywords[k], n)}
        /\ \A e \in 1..Len(result) : \A f \in 1..Len(result) :
              result[e].name = result[f].name => e = f
        /\ \A e \in 1..Len(result) : result[e].match_count >= 1
        /\ (\A i \in 1..Len(interests) : interests[i] \in {",", " "})
              => result = <<>>

\* A text with a blank token among its tokens, for which one catalog course
\* is returned and another is not.
C8_Witness ==
    /\ call = "suggest_ai_electives"
    /\ pc = "done"
    /\ \E i \in 1..Len(Split(interests, ",")) : Strip(Split(interests, ",")[i]) = <<>>
    /\ result # <<>>
    /\ \E n \in DOMAIN CoursesData(catalog) :
          \A e \in 1..Len(result) : result[e].name # n

----------------------------------------------------------------------------
(* The three parts of a candidate's priority, from the request and catalog *)

ActivePath ==
    IF career_path # None /\ career_path # <<>>
       /\ Lower(career_path) \in DOMAIN CareerPaths(catalog)
    THEN CareerPaths(catalog)[Lower(career_path)]
    ELSE <<>>

Positions(name) == {k \in 1..Len(ActivePath) : ActivePath[k] = name}

CareerPart(name) ==
    IF Positions(name) = {} THEN 0
    ELSE 1000 - ((CHOOSE k \in Positions(name) : \A j \in Positions(name) : k <= j) - 1)

InterestPart(name) ==
    50 * Cardinality({k \in 1..Len(Keywords) : AnyHit(Keywords[k], name)})

LevelPart(name, t) ==
    LET year == (t + 1) \div 2
        level == Get(CoursesData(catalog)[name], "level", "unknown")
    IN  IF \/ year = 1 /\ level = "freshman"
           \/ year = 2 /\ level = "sophomore"
           \/ year = 3 /\ level = "junior"
           \/ year >= 4 /\ level = "senior"
        THEN 200 ELSE 0

\* C9: the priority of a candidate of semester t is 1000 minus its index in
\* the active career path's list (0 without such a list or outside it), plus
\* 50 per matching interest keyword, plus 200 when its level is the target
\* level of the semester's year; the first two entries of the list get 1000
\* and 999 as their career part.
C9_PriorityIsSumOfParts ==
    \A t \in Plans : \A i \in 1..Len(available_log[t]) :
        LET c == available_log[t][i]
            rest == InterestPart(c.name) + LevelPart(c.name, t)
        IN  /\ c.priority = CareerPart(c.name) + rest
            /\ (Len(ActivePath) >= 1 /\ c.name = ActivePath[1])
                  => c.priority - rest = 1000
            /\ (Len(ActivePath) >= 2 /\ c.name = ActivePath[2]
                /\ ActivePath[2] # ActivePath[1])
                  => c.priority - rest = 999

\* A candidate that is second in the active career path and whose priority
\* has all three parts.
C9_Witness ==
    \E t \in Plans : \E i \in 1..Len(available_log[t]) :
        LET c == available_log[t][i]
        IN  /\ CareerPart(c.name) = 999
            /\ InterestPart(c.name) > 0
            /\ LevelPart(c.name, t) = 200
            /\ c.priority = 999 + InterestPart(c.name) + 200

----------------------------------------------------------------------------
(* Properties of analyze_workload *)

\* C10: when the collaborator is not available, or one of its calls or the
\* parsing of its answer raises, analyze_workload returns the estimate of
\* analyze_workload_basic for the same course names (method 'Basic'), and
\* no exception leaves it.
C10_EnrichmentFailureFallsBack ==
    (call = "analyze_workload" /\ pc = "done") =>
        /\ raised = FALSE
        /\ (~GEMINI_AVAILABLE \/ enrichment # "json_object") =>
              /\ analysis = AnalyzeWorkloadBasic(catalog, semester_courses)
              /\ analysis.method = "Basic"
              /\ analysis.total_credits
                   = SumCredits([i \in 1..Len(semester_courses) |->
                        [credits |->
                           IF semester_courses[i] \in DOMAIN CoursesData(catalog)
                           THEN Get(CoursesData(catalog)[semester_courses[i]],
                                    "credits", 3)
                           ELSE 0]])

\* The collaborator is available and its call raises, for courses of the
\* catalog, and the estimate returned is the basic one.
C10_Witness ==
    /\ call = "analyze_workload"
    /\ pc = "done"
    /\ GEMINI_AVAILABLE
    /\ enrichment = "generate_content_raises"
    /\ \E i \in 1..Len(semester_courses) :
          semester_courses[i] \in DOMAIN CoursesData(catalog)
    /\ analysis.method = "Basic"
    /\ analysis.total_credits >= 12

\* The positions of semester_courses that name a course of the catalog.
Known == {i \in 1..Len(semester_courses) :
            semester_courses[i] \in DOMAIN CoursesData(catalog)}

RECURSIVE SumOver(_, _)
SumOver(S, f) ==
    IF S = {} THEN 0
    ELSE LET x == CHOOSE y \in S : TRUE IN f[x] + SumOver(S \ {x}, f)

KnownCredits ==
    SumOver(Known,
            [i \in Known |->
                IF "credits" \in DOMAIN CoursesData(catalog)[semester_courses[i]]
                THEN CoursesData(catalog)[semester_courses[i]].credits ELSE 3])

DifficultyPoints ==
    2 * Cardinality({i \in Known : semester_courses[i] \in
            {"Algorithms", "Operating Systems", "Machine Learning",
             "Artificial Intelligence"}})
    + Cardinality({i \in Known : semester_courses[i] \in
            {"Data Structures", "Database Systems", "Computer Networks"}})

FallbackUsed ==
    /\ call = "analyze_workload"
    /\ pc = "done"
    /\ ~GEMINI_AVAILABLE \/ enrichment # "json_object"

\* C11: the fallback estimate sums the credits (3 when absent) and the
\* difficulty points (2 per high-difficulty name, 1 per moderate one) of the
\* given names that are catalog courses; difficulty_rating is 8 from 15
\* credits on, min(10, 6 + floor(points / 2)) from 12 to 14 credits and 5
\* below; it is an integer in 1..10 and total_credits is the credit sum.
C11_FallbackRating ==
    FallbackUsed =>
        /\ analysis.total_credits = KnownCredits
        /\ analysis.difficulty_rating \in 1..10
        /\ analysis.difficulty_rating =
              IF KnownCredits >= 15 THEN 8
              ELSE IF KnownCredits >= 12
              THEN (IF 6 + (DifficultyPoints \div 2) > 10 THEN 10
                    ELSE 6 + (DifficultyPoints \div 2))
              ELSE 5

\* A list of 12 to 14 credits whose points put 6 + floor(points / 2) above
\* 10, so that the cap decides the rating.
C11_Witness ==
    /\ FallbackUsed
    /\ KnownCredits \in 12..14
    /\ 6 + (DifficultyPoints \div 2) > 10
    /\ analysis.difficulty_rating = 10

----------------------------------------------------------------------------
(* A career path that the catalog does not list *)

\* The request names a career path and the catalog has no such key.
UnknownPath ==
    /\ call = "generate_semester_schedule"
    /\ career_path # None /\ career_path # <<>>
    /\ Lower(career_path) \notin DOMAIN CareerPaths(catalog)

\* The names some career path of the catalog lists.
ListedInSomePath ==
    UNION {{CareerPaths(catalog)[k][i] : i \in 1..Len(CareerPaths(catalog)[k])} :
             k \in DOMAIN CareerPaths(catalog)}

\* C12 as stated: a finished run whose career path is not in the catalog has
\* reported the unknown key to the caller.
C12_UnknownPathReported ==
    (UnknownPath /\ pc = "done") => raised

\* C12, amended: a career path that is not in the catalog is not reported;
\* the run raises nothing, uses an empty priority list, gives no candidate a
\* career part in its priority, marks no course career_relevant, and returns
\* one plan per requested semester.
C12_UnknownPathIgnored ==
    (UnknownPath /\ pc # "call") =>
        /\ ~raised
        /\ career_priorities = <<>>
        /\ \A t \in Plans :
              /\ \A i \in 1..Len(available_log[t]) :
                    LET c == available_log[t][i]
                    IN  /\ c.priority = InterestPart(c.name) + LevelPart(c.name, t)
                        /\ ~c.career_relevant
              /\ \A i \in 1..Len(semester_schedules[t].courses) :
                    ~semester_schedules[t].courses[i].career_relevant
        /\ pc = "done" => Len(result) = semesters

\* A finished run with an unknown career path that assigned a course some
\* career path of the catalog lists.
C12_Witness ==
    /\ UnknownPath
    /\ pc = "done"
    /\ Len(result) > 0
    /\ \E t \in Plans : NamesOf(t) \cap ListedInSomePath # {}

----------------------------------------------------------------------------
(* The order of the courses suggest_next_courses returns *)

\* The rank of a level: the four named levels in order, anything else last.
LevelRank(level) ==
    IF level = "freshman" THEN 1
    ELSE IF level = "sophomore" THEN 2
    ELSE IF level = "junior" THEN 3
    ELSE IF level = "senior" THEN 4
    ELSE 5

\* The level of a catalog course, "unknown" when the catalog gives none.
LevelOf(name) == Get(CoursesData(catalog)[name], "level", "unknown")

\* The offered names that are eligible next, in offered order.
EligibleOffered ==
    SelectSeq(all_courses,
              LAMBDA n : /\ n \in DOMAIN CoursesData(catalog)
                         /\ n \notin completed
                         /\ PrereqSet(catalog, n) \subseteq completed)

\* The names of the returned courses, in returned order.
ReturnedNames == [i \in 1..Len(result) |-> result[i].name]

\* C13: suggest_next_courses returns the eligible offered courses in
\* non-decreasing level rank (freshman, sophomore, junior, senior, then every
\* other level together), and the courses of one rank come in their offered
\* order.
C13_OrderedByLevelOnly ==
    (call = "suggest_next_courses" /\ pc = "done") =>
        /\ \A i \in 1..Len(result) : \A j \in 1..Len(result) :
              i < j => LevelRank(result[i].level) <= LevelRank(result[j].level)
        /\ \A i \in 1..Len(result) : result[i].level = LevelOf(result[i].name)
        /\ \A r \in 1..5 :
              SelectSeq(ReturnedNames, LAMBDA n : LevelRank(LevelOf(n)) = r)
                = SelectSeq(EligibleOffered, LAMBDA n : LevelRank(LevelOf(n)) = r)

\* A returned list that moved a senior course ahead of a "graduate" course
\* and a course without a level, which stay in their offered order.
C13_Witness ==
    /\ call = "suggest_next_courses"
    /\ pc = "done"
    /\ all_courses = <<"Thesis", "Seminar", "Capstone">>
    /\ ReturnedNames = <<"Capstone", "Thesis", "Seminar">>

----------------------------------------------------------------------------
(* The credits of a semester while its courses were accepted *)

\* The credits of the first k courses of semester t.
CreditsOfFirst(t, k) == SumCredits(SubSeq(semester_schedules[t].courses, 1, k))

\* C14: in every semester each accepted course found fewer than 12 credits
\* accumulated before it, so the total less the last accepted course is
\* below 12, and the total is at most 18.
C14_AcceptedOnlyBelowTwelve ==
    \A t \in Plans :
        LET courses == semester_schedules[t].courses
            total == semester_schedules[t].total_credits
        IN  /\ \A k \in 1..Len(courses) : CreditsOfFirst(t, k - 1) < 12
            /\ courses # <<>> => total - courses[Len(courses)].credits < 12
            /\ total = CreditsOfFirst(t, Len(courses))
            /\ total <= 18

\* A semester whose last accepted course carried it from under 12 credits to
\* over 12.
C14_Witness ==
    \E t \in Plans :
        LET courses == semester_schedules[t].courses
        IN  /\ Len(courses) >= 2
            /\ semester_schedules[t].total_credits > 12
            /\ CreditsOfFirst(t, Len(courses) - 1) < 12

----------------------------------------------------------------------------
(* The candidates a semester left out *)

\* The positions in the candidate list `available` of the accepted names
\* `names`, each taken at its first occurrence from position i on.
RECURSIVE AcceptedPositions(_, _, _)
AcceptedPositions(available, names, i) ==
    IF names = <<>> \/ i > Len(available) THEN {}
    ELSE IF available[i].name = Head(names)
         THEN {i} \cup AcceptedPositions(available, Tail(names), i + 1)
         ELSE AcceptedPositions(available, names, i + 1)

AcceptedIn(t) ==
    AcceptedPositions(available_log[t],
                      [k \in 1..Len(semester_schedules[t].courses) |->
                          semester_schedules[t].courses[k].name],
                      1)

\* The credits accepted in semester t before the turn of candidate i.
CreditsBefore(t, i) ==
    LET earlier == {k \in AcceptedIn(t) : k < i}
    IN  SumOver(earlier, [k \in earlier |-> available_log[t][k].credits])

\* C15: the accepted courses of a semester are candidates in candidate
\* order, and a candidate that was left out either would have taken the
\* semester over 18 credits at its turn or had its turn after the semester
\* reached 12; a semester that ends under 12 credits left out only
\* candidates that did not fit under 18.
C15_LeftOutOnlyForCapOrFull ==
    \A t \in Plans :
        LET available == available_log[t]
        IN  /\ Cardinality(AcceptedIn(t)) = Len(semester_schedules[t].courses)
            /\ \A i \in (1..Len(available)) \ AcceptedIn(t) :
                  \/ CreditsBefore(t, i) + available[i].credits > 18
                  \/ CreditsBefore(t, i) >= 12
            /\ semester_schedules[t].total_credits < 12 =>
                  \A i \in (1..Len(available)) \ AcceptedIn(t) :
                      CreditsBefore(t, i) + available[i].credits > 18

\* A semester that passed over a candidate for the cap, accepted a later
\* one and ended under 12 credits.
C15_Witness ==
    \E t \in Plans : \E i \in (1..Len(available_log[t])) \ AcceptedIn(t) :
        /\ semester_schedules[t].total_credits < 12
        /\ \E k \in AcceptedIn(t) : k > i

----------------------------------------------------------------------------
(* The order in which a semester considers its candidates *)

\* The position of a course in the catalog's iteration order.
CatalogPosition(name) ==
    CHOOSE k \in 1..Len(catalog.order) : catalog.order[k] = name

\* The offered names that are candidates of semester t, in offered order.
EligibleAt(t) ==
    SelectSeq(all_courses,
              LAMBDA n : /\ n \in DOMAIN CoursesData(catalog)
                         /\ n \notin TakenBefore(t)
                         /\ PrereqSet(catalog, n) \subseteq TakenBefore(t))

\* The name is a candidate of semester t with priority p.
HasPriority(name, t, p) ==
    \E i \in 1..Len(available_log[t]) :
        available_log[t][i].name = name /\ available_log[t][i].priority = p

ConsideredNames(t) == [i \in 1..Len(available_log[t]) |-> available_log[t][i].name]

\* C16 as stated: the candidates of a semester are in descending priority,
\* and candidates of equal priority are in catalog iteration order.
C16_TiesInCatalogOrder ==
    \A t \in Plans : \A i \in 1..Len(available_log[t]) :
        \A j \in 1..Len(available_log[t]) :
            i < j =>
                LET a == available_log[t][i]
                    b == available_log[t][j]
                IN  /\ a.priority >= b.priority
                    /\ a.priority = b.priority
                          => CatalogPosition(a.name) <= CatalogPosition(b.name)

\* C16, amended: the candidates of a semester are in descending priority,
\* and candidates of equal priority are in the order of the offered course
\* list (all_courses), whatever their order in the catalog.
C16_TiesInOfferedOrder ==
    \A t \in Plans :
        /\ \A i \in 1..Len(available_log[t]) : \A j \in 1..Len(available_log[t]) :
              i < j => available_log[t][i].priority >= available_log[t][j].priority
        /\ \A p \in {available_log[t][i].priority : i \in 1..Len(available_log[t])} :
              SelectSeq(ConsideredNames(t), LAMBDA n : HasPriority(n, t, p))
                = SelectSeq(EligibleAt(t), LAMBDA n : HasPriority(n, t, p))
        /\ Len(available_log[t]) = Len(EligibleAt(t))

\* A semester with two candidates of equal priority, considered in offered
\* order against their catalog order, of which only the first was accepted.
C16_Witness ==
    \E t \in Plans :
        /\ Len(available_log[t]) >= 2
        /\ available_log[t][1].priority = available_log[t][2].priority
        /\ CatalogPosition(available_log[t][1].name)
              > CatalogPosition(available_log[t][2].name)
        /\ available_log[t][1].name \in NamesOf(t)
        /\ available_log[t][2].name \notin NamesOf(t)

----------------------------------------------------------------------------
(* Courses whose prerequisites can never be met *)

\* The catalog courses reachable from the set S along prerequisite lists,
\* passing only through courses in `through`.
RECURSIVE ReachableFrom(_, _)
ReachableFrom(S, through) ==
    LET step == S \cup {p \in through :
                          \E n \in S \cap DOMAIN CoursesData(catalog) :
                              p \in PrereqSet(catalog, n)}
    IN  IF step = S THEN S ELSE ReachableFrom(step, through)

\* The course is on a prerequisite cycle that stays within `through`.
OnCycle(name, through) ==
    /\ name \in through
    /\ \E p \in PrereqSet(catalog, name) \cap through :
          name \in ReachableFrom({p}, through)

\* The course names a prerequisite that is not completed and is no catalog
\* course or is not offered.
NamesMissingPrereq(name) ==
    \E p \in PrereqSet(catalog, name) :
        /\ p \notin completed
        /\ p \notin DOMAIN CoursesData(catalog) \/ p \notin Offered

NeverScheduled(name) ==
    \A t \in Plans : name \notin NamesOf(t) /\ name \notin CandidateNames(t)

\* C17 as stated: a course that names a missing prerequisite, or that lies
\* on a prerequisite cycle, is never assigned to a semester and never counted
\* among the candidates, and the run raises nothing.
C17_CycleNeverScheduled ==
    \A name \in DOMAIN CoursesData(catalog) :
        (NamesMissingPrereq(name) \/ OnCycle(name, DOMAIN CoursesData(catalog)))
            => (NeverScheduled(name) /\ ~raised)

\* C17, amended: a course that names a prerequisite that is not completed
\* and is no catalog course or is not offered, or that lies on a prerequisite
\* cycle none of whose courses is completed, is never assigned to a semester
\* and never counted among the candidates, for any number of semesters, and
\* the run raises nothing.
C17_UnsatisfiableNeverScheduled ==
    \A name \in DOMAIN CoursesData(catalog) :
        (NamesMissingPrereq(name)
         \/ OnCycle(name, DOMAIN CoursesData(catalog) \ completed))
            => (NeverScheduled(name) /\ ~raised)

\* A finished run of the largest number of semesters in which two offered
\* courses that are each other's prerequisite, and an offered course whose
\* prerequisite is no catalog course, were never scheduled.
C17_Witness ==
    /\ call = "generate_semester_schedule"
    /\ pc = "done"
    /\ semesters = 9
    /\ \E name \in Offered \cap DOMAIN CoursesData(catalog) :
          /\ OnCycle(name, DOMAIN CoursesData(catalog) \ completed)
          /\ ~NamesMissingPrereq(name)
    /\ \E name \in Offered \cap DOMAIN CoursesData(catalog) :
          \E p \in PrereqSet(catalog, name) :
              p \notin completed /\ p \notin DOMAIN CoursesData(catalog)

----------------------------------------------------------------------------
(* A course that is larger than a semester *)

\* C18: a candidate of more than 18 credits is not assigned in its semester
\* and adds nothing to the semester's credits, so a later candidate that
\* finds fewer than 12 credits accumulated and fits under 18 is accepted; the
\* large course stays outside planned_courses and is a candidate, counted in
\* available_courses_count, of every later semester.
C18_OversizedSkippedAndDeferred ==
    \A t \in Plans : \A i \in 1..Len(available_log[t]) :
        available_log[t][i].credits > 18 =>
            LET name == available_log[t][i].name
            IN  /\ \A u \in Plans : name \notin NamesOf(u)
                /\ semester_schedules[t].total_credits
                      = SumCredits(semester_schedules[t].courses)
                /\ \A j \in (i + 1)..Len(available_log[t]) :
                      (/\ CreditsBefore(t, j) < 12
                       /\ CreditsBefore(t, j) + available_log[t][j].credits <= 18)
                          => j \in AcceptedIn(t)
                /\ name \notin planned_courses
                /\ \A u \in Plans :
                      u > t => /\ name \in CandidateNames(u)
                               /\ semester_schedules[u].available_courses_count >= 1

\* A 20-credit course that was first in line in semester 1, where a smaller
\* course behind it was accepted, and that is a candidate again in
\* semester 3.
C18_Witness ==
    /\ Len(semester_schedules) >= 3
    /\ Len(available_log[1]) >= 2
    /\ available_log[1][1].credits = 20
    /\ NamesOf(1) # {}
    /\ available_log[1][1].name \in CandidateNames(3)

----------------------------------------------------------------------------
(* planned_courses and completed *)

\* The courses the run has assigned to its semesters so far.
AssignedSoFar == UNION {NamesOf(t) : t \in Plans}

\* The run is past the set-up of lines 139-154.
Running == call = "generate_semester_schedule" /\ pc \in {"loop", "done"}

\* C19 as stated: from its initialization on, planned_courses has no course
\* in common with completed.
C19_PlannedDisjointFromCompleted ==
    Running => planned_courses \cap completed = {}

\* C19, amended: planned_courses is initialized to the completed courses and
\* is at every point of the run the completed courses together with the
\* courses assigned so far; it is the assigned courses that have nothing in
\* common with completed.
C19_PlannedHoldsCompleted ==
    Running =>
        /\ Plans = {} => planned_courses = completed
        /\ planned_courses = completed \cup AssignedSoFar
        /\ AssignedSoFar \cap completed = {}

\* A run with completed courses that has assigned a course whose
\* prerequisite is completed.
C19_Witness ==
    /\ Running
    /\ completed # {}
    /\ \E name \in AssignedSoFar : PrereqSet(catalog, name) \cap completed # {}

----------------------------------------------------------------------------
(* What a semester changes *)

\* The step appends the plan of one semester.
SemesterStep == Len(semester_schedules') = Len(semester_schedules) + 1

\* C20: no step of a run changes completed, the offered list, the catalog,
\* the career path or the interests, and none removes a course from
\* planned_courses; the step of a semester adds to planned_courses exactly
\* the courses it accepted, none of which was in it, keeps the earlier plans
\* and leaves the career priorities and the interest matches as they were.
C20_FrameOfASemester ==
    [][/\ completed' = completed
       /\ all_courses' = all_courses
       /\ catalog' = catalog
       /\ career_path' = career_path
       /\ interests' = interests
       /\ planned_courses \subseteq planned_courses'
       /\ SemesterStep =>
             LET accepted == CourseNames(
                     semester_schedules'[Len(semester_schedules')].courses)
             IN  /\ planned_courses' = planned_courses \cup accepted
                 /\ planned_courses \cap accepted = {}
                 /\ SubSeq(semester_schedules', 1, Len(semester_schedules))
                       = semester_schedules
                 /\ career_priorities' = career_priorities
                 /\ interest_electives' = interest_electives]_vars

\* A run with a completed course whose first two semesters each accepted a
\* course, the first leaving a candidate behind.
C20_Witness ==
    /\ completed # {}
    /\ Len(semester_schedules) >= 2
    /\ NamesOf(1) # {} /\ NamesOf(2) # {}
    /\ NamesOf(1) # CandidateNames(1)
    /\ planned_courses = completed \cup NamesOf(1) \cup NamesOf(2)

----------------------------------------------------------------------------
(* The count of candidates a plan reports *)

\* C21: available_courses_count of semester t is the number of entries of
\* the offered list that, when the semester starts, are catalog courses, not
\* completed, not yet assigned, and have every prerequisite completed or
\* assigned earlier; it is the length of the semester's candidate list,
\* accepted or not, and so at least the number of courses assigned in t.
C21_CountIsEligibleOffered ==
    \A t \in Plans :
        LET count == semester_schedules[t].available_courses_count
        IN  /\ count = Len(EligibleAt(t))
            /\ count = Len(available_log[t])
            /\ count >= Len(semester_schedules[t].courses)

\* An offered list without repeats whose first semester counts more
\* candidates than it assigned courses, and whose second semester no longer
\* counts the courses assigned in the first.
C21_Witness ==
    /\ Cardinality(Offered) = Len(all_courses)
    /\ Len(semester_schedules) >= 2
    /\ NamesOf(1) # {}
    /\ semester_schedules[1].available_courses_count
          > Len(semester_schedules[1].courses)
    /\ semester_schedules[2].available_courses_count >= 1
    /\ semester_schedules[2].available_courses_count
          < semester_schedules[1].available_courses_count

----------------------------------------------------------------------------
(* Repeats in the offered list *)

\* The number of times a name is assigned in semester t.
TimesAssigned(name, t) ==
    Cardinality({k \in 1..Len(semester_schedules[t].courses) :
                    semester_schedules[t].courses[k].name = name})

\* C22: every course name is assigned at most once in the whole schedule,
\* within one semester as well as across semesters, whatever the offered
\* list repeats.
C22_EachNameAtMostOnce ==
    \A name \in Offered :
        /\ \A t \in Plans : TimesAssigned(name, t) <= 1
        /\ \A t \in Plans : \A u \in Plans :
              (t # u /\ TimesAssigned(name, t) >= 1) => TimesAssigned(name, u) = 0

----------------------------------------------------------------------------
(* Courses that enough semesters are bound to reach *)

\* The credits on a course's record, 3 when the record gives none.
CreditsOf(name) == Get(CoursesData(catalog)[name], "credits", 3)

\* The offered catalog courses that are not completed, have at most 18
\* credits, and have every prerequisite completed or in S, added to S until
\* nothing more can be added.
RECURSIVE SchedulableFrom(_)
SchedulableFrom(S) ==
    LET step == S \cup {n \in Offered \cap DOMAIN CoursesData(catalog) :
                          /\ n \notin completed
                          /\ CreditsOf(n) <= 18
                          /\ PrereqSet(catalog, n) \subseteq (completed \cup S)}
    IN  IF step = S THEN S ELSE SchedulableFrom(step)

Schedulable == SchedulableFrom({})

\* C23: a finished run of at least as many semesters as the offered list
\* has entries has assigned every offered catalog course that is not
\* completed, has at most 18 credits, and whose prerequisites are, all the
\* way down and without a cycle, completed or courses of this kind.
C23_NoStarvation ==
    (/\ call = "generate_semester_schedule"
     /\ pc = "done"
     /\ semesters >= Len(all_courses))
        => Schedulable \subseteq AssignedSoFar

\* A finished run of exactly as many semesters as offered courses that
\* needed each of them: the second course waited for the first.
C23_Witness ==
    /\ call = "generate_semester_schedule"
    /\ pc = "done"
    /\ semesters = Len(all_courses)
    /\ Cardinality(Schedulable) = 2
    /\ \E n \in NamesOf(2) : PrereqSet(catalog, n) \cap NamesOf(1) # {}
    /\ Schedulable \subseteq AssignedSoFar

----------------------------------------------------------------------------
(* A semester that assigns nothing *)

\* C24: once a semester assigns no course, planned_courses stays what it
\* was when that semester started, and every later semester assigns no
\* course either, has total_credits 0, and reports the same
\* available_courses_count.
C24_EmptySemesterIsFixedPoint ==
    \A t \in Plans :
        semester_schedules[t].courses = <<>> =>
            /\ planned_courses = TakenBefore(t)
            /\ \A u \in Plans :
                  u > t =>
                      /\ semester_schedules[u].courses = <<>>
                      /\ semester_schedules[u].total_credits = 0
                      /\ semester_schedules[u].available_courses_count
                            = semester_schedules[t].available_courses_count

\* A run that assigned a course in semester 1, nothing in semester 2 though
\* a candidate was there, and has gone on into a later year.
C24_Witness ==
    /\ Len(semester_schedules) >= 4
    /\ NamesOf(1) # {}
    /\ semester_schedules[2].courses = <<>>
    /\ semester_schedules[2].available_courses_count >= 1
    /\ semester_schedules[4].available_courses_count >= 1

====
